---------------------------- MODULE Spec2Model ----------------------------
(***************************************************************************)
(* Model of the vote ledger and tally of src/app.py.                       *)
(*                                                                         *)
(* The ledger is the two tables created by init_db: votes (id, party,      *)
(* ip_address) and voters (ip_address PRIMARY KEY).  Every call of         *)
(* execute_query opens its own connection, runs ONE statement, commits and *)
(* closes: one statement is one atomic step, and nothing groups the        *)
(* statements of a request.  A statement may raise (storage failure, or    *)
(* the primary-key violation on voters).                                   *)
(*                                                                         *)
(* A /vote request is a process that goes through has_voted, the party     *)
(* checks and the two inserts of cast_vote.  A get_rankings call is a      *)
(* process that issues one COUNT per party, then the total COUNT.          *)
(***************************************************************************)
EXTENDS Integers, Sequences, FiniteSets, TLC

\* ------------------------------------------------------------------ bounds
\* Number of /vote requests of one run.
NumReq == 2

\* ------------------------------------------------------------- configuration
\* PARTIES (src/app.py:18-24), in declaration order; the five Bengali names
\* are written in Latin letters.
PARTIES == << "BNP", "AwamiLeague", "NCP", "Jamaat", "JatiyaParty" >>

PartySet == { PARTIES[i] : i \in 1..Len(PARTIES) }

\* Values of request.json.get('party') that a request may carry: the parties
\* the voters of a run choose among, the empty value and an unknown name.
CastParties == { PARTIES[2], PARTIES[5] }
NoParty == ""
UnknownParty == "Unknown"
PartyInputs == CastParties \cup { NoParty, UnknownParty }

\* Voter keys (client_ip) of a run.
IPs == { "10.0.0.1", "10.0.0.2" }

\* Requests are numbered in the order of their arrival.
Req == 1..NumReq

\* The JSON answers of vote(), named by what they report.
Accepted      == "Accepted"        \* success: True
AlreadyVoted  == "AlreadyVoted"    \* line 311
SelectParty   == "SelectParty"     \* line 315
InvalidOption == "InvalidOption"   \* line 318
Error         == "Error"           \* line 324, the generic except branch

VARIABLES
    votes,      \* table votes: set of rows [id, party, ip_address]
    voters,     \* table voters: set of ip_address (primary key)
    pc,         \* pc[r]: position of request r in vote()
    client_ip,  \* client_ip[r]
    party,      \* party[r]: request.json.get('party')
    lookup,     \* lookup[r]: what the SELECT of has_voted did
    exc,        \* exc[r]: exception that reached the except of vote()
    response,   \* response[r]: the answer of vote()
    after,      \* after[r]: an accepted cast of client_ip[r] had completed
                \*           when r started
    rpc,        \* position of the get_rankings call in progress
    vote_counts,\* counts collected so far, in PARTIES order
    total_votes,\* total_votes of get_rankings
    rankings,   \* the list get_rankings returned
    rfailed,    \* a query of the call raised
    quiet,      \* no row was committed to votes since the call started, up
                \* to its total query
    keep,       \* the run compares the results of successive get_rankings
                \* calls (fixed at the start of the run)
    prev,       \* what the call before returned, kept while nothing was
                \* written since that call started
    nowrite     \* nothing was written to votes or voters since the call
                \* started (since the call before started, when prev is kept)

vars == << votes, voters, pc, client_ip, party, lookup, exc, response, after,
           rpc, vote_counts, total_votes, rankings, rfailed, quiet,
           keep, prev, nowrite >>

castVars == << pc, client_ip, party, lookup, exc, response, after >>
rankVars == << rpc, vote_counts, total_votes, rankings, rfailed, quiet >>

readVars == << keep, prev, nowrite >>

None == "None"

\* No result of an earlier get_rankings call is kept.
NoResult == << >>

\* Both tables are empty and no request has arrived.
Fresh ==
    /\ votes = {}
    /\ voters = {}
    /\ pc = [r \in Req |-> "idle"]
    /\ client_ip = [r \in Req |-> None]
    /\ party = [r \in Req |-> None]
    /\ lookup = [r \in Req |-> None]
    /\ exc = [r \in Req |-> None]
    /\ response = [r \in Req |-> None]
    /\ after = [r \in Req |-> FALSE]
    /\ rpc = "idle"
    /\ vote_counts = << >>
    /\ total_votes = 0
    /\ rankings = << >>
    /\ rfailed = FALSE
    /\ quiet = TRUE
    /\ prev = NoResult
    /\ nowrite = TRUE

Init == Fresh /\ keep = FALSE

\* The same start, for the runs that compare successive results.
InitReads == Fresh /\ keep = TRUE

\* ------------------------------------------------------------- ledger store
\* The lookup compares the key with the party column of votes.
SelectVoter_ByParty(ip) ==
    IF ip \in { v.party : v \in votes } THEN "row" ELSE None

\* A statement wrote a row: a get_rankings call that has started no longer
\* reads the ledger of the call before.
NoteWrite ==
    /\ nowrite' = (nowrite /\ (rpc = "idle" \/ ~keep))
    /\ prev' = NoResult
    /\ UNCHANGED keep

\* SELECT ip_address FROM voters WHERE ip_address = %s  (fetchone)
SelectVoter(ip) == IF ip \in voters THEN "row" ELSE None

\* has_voted: result is not None; any exception gives False.
has_voted(outcome) ==
    CASE outcome = "row"    -> TRUE
      [] outcome = None     -> FALSE
      [] outcome = "raised" -> FALSE

\* PartyCheck without the membership test of line 317.
PartyCheck_NoMembership(p) ==
    IF p = NoParty THEN SelectParty ELSE None

\* Lines 313-318: the answer that rejects party, None when it is accepted.
PartyCheck(p) ==
    IF p = NoParty THEN SelectParty
    ELSE IF p \notin PartySet THEN InvalidOption
    ELSE None

\* An accepted cast of the voter key ip has completed.
AcceptedBefore(ip) ==
    \E q \in Req : pc[q] = "done" /\ response[q] = Accepted /\ client_ip[q] = ip

\* SELECT COUNT(*) FROM votes WHERE party = %s
CountParty(p) == Cardinality({ v \in votes : v.party = p })

\* The total taken from the table voters instead of votes.
CountAll_FromVoters == Cardinality(voters)

\* SELECT COUNT(*) FROM votes
CountAll == Cardinality(votes)

\* ---------------------------------------------------------------- vote()
\* What a request says about its sender: the X-Forwarded-For header, as the
\* list of its comma-separated fields (NoHeader when the header is absent;
\* the other proxy headers are absent), and request.remote_addr.
NoHeader == << >>

Metas ==
    { [forwarded |-> NoHeader, remote_addr |-> "10.0.0.1"],
      [forwarded |-> << "10.0.0.2", " 10.0.0.1" >>, remote_addr |-> "10.9.9.9"],
      [forwarded |-> << "" >>, remote_addr |-> "10.9.9.9"],
      [forwarded |-> << " ", "10.0.0.1" >>, remote_addr |-> "10.9.9.9"],
      [forwarded |-> NoHeader, remote_addr |-> None] }

\* str.strip() on the fields that occur in Metas.
Strip(field) ==
    CASE field = " "         -> ""
      [] field = " 10.0.0.1" -> "10.0.0.1"
      [] OTHER               -> field

\* Lines 301-307: the header if present, else remote_addr; of a value with a
\* comma, the first field, stripped.  A value without comma is taken as is.
ClientIp(meta) ==
    LET value == IF meta.forwarded # NoHeader THEN meta.forwarded
                 ELSE IF meta.remote_addr # None THEN << meta.remote_addr >>
                 ELSE NoHeader
    IN  IF value = NoHeader THEN None
        ELSE IF value # << "" >> /\ Len(value) > 1 THEN Strip(value[1])
        ELSE value[1]

\* The voter keys that the requests of Metas resolve to.
MetaKeys == { ClientIp(meta) : meta \in Metas }

\* Lines 298-318: a request arrives with its client_ip, one of keys, and its
\* party; then has_voted(client_ip) and the checks of party, which read no
\* shared state.  raised = TRUE is a storage failure of the SELECT.
Handle(r, keys) ==
    /\ pc[r] = "idle"
    /\ \A q \in 1..(r - 1) : pc[q] # "idle"
    /\ \E ip \in keys, p \in PartyInputs, raised \in BOOLEAN :
          LET outcome == IF raised THEN "raised" ELSE SelectVoter(ip)
              answer  == IF has_voted(outcome) THEN AlreadyVoted ELSE PartyCheck(p)
          IN  /\ client_ip' = [client_ip EXCEPT ![r] = ip]
              /\ party' = [party EXCEPT ![r] = p]
              /\ after' = [after EXCEPT ![r] = AcceptedBefore(ip)]
              /\ lookup' = [lookup EXCEPT ![r] = outcome]
              /\ response' = [response EXCEPT ![r] = answer]
              /\ pc' = [pc EXCEPT ![r] = IF answer = None THEN "insert_vote" ELSE "done"]
    /\ UNCHANGED << votes, voters, exc >>
    /\ UNCHANGED rankVars
    /\ UNCHANGED readVars

\* A request from one of the voters of the run.
vote(r) == Handle(r, IPs)

\* A request whose client_ip is resolved from what it says about its sender.
voteFromMeta(r) == Handle(r, MetaKeys)

\* cast_vote, first statement (lines 220-221): INSERT INTO votes, committed
\* on its own.  A failure raises through cast_vote to the except of vote().
\* The commit is noted in quiet when a get_rankings call is reading.
\* ip_address is NOT NULL (lines 111, 146): a client_ip of None is refused.
InsertVote(r) ==
    /\ pc[r] = "insert_vote"
    /\ \E raised \in BOOLEAN :
          IF ~raised /\ client_ip[r] # None
          THEN /\ votes' = votes \cup
                     { [id |-> r, party |-> party[r], ip_address |-> client_ip[r]] }
               /\ pc' = [pc EXCEPT ![r] = "insert_voter"]
               /\ quiet' = (quiet /\ rpc \notin { "count", "total" })
               /\ NoteWrite
               /\ UNCHANGED << exc, response >>
          ELSE /\ exc' = [exc EXCEPT ![r] =
                         IF raised THEN "OperationalError" ELSE "IntegrityError"]
               /\ response' = [response EXCEPT ![r] = Error]
               /\ pc' = [pc EXCEPT ![r] = "done"]
               /\ UNCHANGED << votes, quiet >>
               /\ UNCHANGED readVars
    /\ UNCHANGED << voters, client_ip, party, lookup, after >>
    /\ UNCHANGED << rpc, vote_counts, total_votes, rankings, rfailed >>

\* cast_vote, second statement (lines 222-223): INSERT INTO voters.  The
\* primary key rejects a second row for the same ip_address.
InsertVoter(r) ==
    /\ pc[r] = "insert_voter"
    /\ \E raised \in BOOLEAN :
          IF raised
          THEN /\ exc' = [exc EXCEPT ![r] = "OperationalError"]
               /\ response' = [response EXCEPT ![r] = Error]
               /\ UNCHANGED voters
               /\ UNCHANGED readVars
          ELSE IF client_ip[r] \in voters
          THEN /\ exc' = [exc EXCEPT ![r] = "IntegrityError"]
               /\ response' = [response EXCEPT ![r] = Error]
               /\ UNCHANGED voters
               /\ UNCHANGED readVars
          ELSE /\ voters' = voters \cup { client_ip[r] }
               /\ response' = [response EXCEPT ![r] = Accepted]
               /\ NoteWrite
               /\ UNCHANGED exc
    /\ pc' = [pc EXCEPT ![r] = "done"]
    /\ UNCHANGED << votes, client_ip, party, lookup, after >>
    /\ UNCHANGED rankVars

\* ------------------------------------------------------------ tally engine
\* Insert that puts an item in front of the items with the same count, as
\* reversing an ascending sort does.
RECURSIVE Insert_BeforeEquals(_, _)
Insert_BeforeEquals(x, s) ==
    IF s = << >> THEN << x >>
    ELSE IF Head(s).votes > x.votes
         THEN << Head(s) >> \o Insert_BeforeEquals(x, Tail(s))
         ELSE << x >> \o s

\* sorted(items, key=count, reverse=True): descending and stable.  Insert
\* puts an item behind every item whose count is not smaller.
RECURSIVE Insert(_, _)
Insert(x, s) ==
    IF s = << >> THEN << x >>
    ELSE IF Head(s).votes >= x.votes
         THEN << Head(s) >> \o Insert(x, Tail(s))
         ELSE << x >> \o s

\* The items left in declaration order.
SortedDesc_Unsorted(items) == items

RECURSIVE SortedDesc(_)
SortedDesc(items) ==
    IF items = << >> THEN << >>
    ELSE Insert(items[Len(items)], SortedDesc(SubSeq(items, 1, Len(items) - 1)))

\* round(votes / total * 100, 1) if total > 0 else 0, in tenths of a percent.
\* No quotient of the counts of a run lies halfway between two tenths, so
\* rounding to nearest needs no tie rule.
Percentage(v, total) ==
    IF total > 0 THEN (2000 * v + total) \div (2 * total) ELSE 0

\* Only the parties that have votes, as a GROUP BY query would give.
Items_OnlyVoted(counts) ==
    SelectSeq([ i \in 1..Len(counts) |-> [party |-> PARTIES[i], votes |-> counts[i]] ],
              LAMBDA e : e.votes > 0)

\* vote_counts.items(): the parties in declaration order with their counts.
Items(counts) ==
    [ i \in 1..Len(counts) |-> [party |-> PARTIES[i], votes |-> counts[i]] ]

\* Lines 261-274: sort, then build the entries.
BuildRankings(counts, total) ==
    LET sorted_parties == SortedDesc(Items(counts))
    IN  [ i \in 1..Len(sorted_parties) |->
            [ rank |-> i,
              party |-> sorted_parties[i].party,
              votes |-> sorted_parties[i].votes,
              percentage |-> Percentage(sorted_parties[i].votes, total) ] ]

\* get_rankings is called (any number of times, one call after another: the
\* calls write nothing, so calls in parallel do not affect each other).
RankStart ==
    /\ rpc \in { "idle", "done" }
    /\ rpc' = "count"
    /\ vote_counts' = << >>
    /\ total_votes' = 0
    /\ rankings' = << >>
    /\ rfailed' = FALSE
    /\ quiet' = TRUE
    /\ prev' = IF keep /\ rpc = "done" /\ nowrite
               THEN [rankings |-> rankings, total_votes |-> total_votes]
               ELSE NoResult
    /\ nowrite' = TRUE
    /\ UNCHANGED keep
    /\ UNCHANGED << votes, voters >>
    /\ UNCHANGED castVars

\* get_vote_counts, one turn of the loop: the COUNT of the next party; an
\* exception gives count = 0.
CountNext ==
    /\ rpc = "count"
    /\ \E raised \in BOOLEAN :
          LET p == PARTIES[Len(vote_counts) + 1]
              count == IF raised THEN 0 ELSE CountParty(p)
          IN  /\ vote_counts' = Append(vote_counts, count)
              /\ rfailed' = (rfailed \/ raised)
    /\ rpc' = IF Len(vote_counts) + 1 = Len(PARTIES) THEN "total" ELSE "count"
    /\ UNCHANGED << total_votes, rankings, quiet >>
    /\ UNCHANGED readVars
    /\ UNCHANGED << votes, voters >>
    /\ UNCHANGED castVars

\* get_total_votes (an exception gives 0), then the rest of get_rankings.
Total ==
    /\ rpc = "total"
    /\ \E raised \in BOOLEAN :
          LET total == IF raised THEN 0 ELSE CountAll
          IN  /\ total_votes' = total
              /\ rankings' = BuildRankings(vote_counts, total)
              /\ rfailed' = (rfailed \/ raised)
    /\ rpc' = "done"
    /\ UNCHANGED << vote_counts, quiet >>
    /\ UNCHANGED readVars
    /\ UNCHANGED << votes, voters >>
    /\ UNCHANGED castVars

Next ==
    \/ \E r \in Req : vote(r)
    \/ \E r \in Req : InsertVote(r)
    \/ \E r \in Req : InsertVoter(r)
    \/ RankStart
    \/ CountNext
    \/ Total

Spec == Init /\ [][Next]_vars

\* The runs whose requests carry any of the sender data of Metas.
NextIdentity ==
    \/ \E r \in Req : voteFromMeta(r)
    \/ \E r \in Req : InsertVote(r)
    \/ \E r \in Req : InsertVoter(r)

SpecIdentity == Init /\ [][NextIdentity]_vars

\* The runs in which the result of a get_rankings call is kept for the next.
SpecReads == InitReads /\ [][Next]_vars

\* ===================================================================
\* Properties
\* ===================================================================
TypeOK ==
    /\ voters \subseteq IPs \cup MetaKeys
    /\ \A v \in votes : v.id \in Req /\ v.ip_address \in IPs \cup MetaKeys
    /\ \A r \in Req : pc[r] \in { "idle", "insert_vote", "insert_voter", "done" }
    /\ rpc \in { "idle", "count", "total", "done" }

\* Rows of votes that carry the voter key ip / that request r inserted.
RowsOf(ip) == { v \in votes : v.ip_address = ip }
RowsBy(r)  == { v \in votes : v.id = r }

\* Requests for the voter key ip.
RequestsOf(ip) == { r \in Req : pc[r] # "idle" /\ client_ip[r] = ip }

\* A statement of request r failed for a reason of the storage.
StorageFailed(r) == lookup[r] = "raised" \/ exc[r] = "OperationalError"

\* C1: of N >= 2 requests for one voter key that carry valid options and meet
\* no storage failure, exactly one is answered Accepted and every other one
\* AlreadyVoted, however their statements interleave.
C1_OneAcceptedOthersAlreadyVoted ==
    \A ip \in IPs :
        LET R == RequestsOf(ip)
        IN  ( /\ Cardinality(R) >= 2
              /\ \A r \in R : /\ pc[r] = "done"
                              /\ party[r] \in PartySet
                              /\ ~StorageFailed(r) )
            => /\ Cardinality({ r \in R : response[r] = Accepted }) = 1
               /\ \A r \in R : response[r] \in { Accepted, AlreadyVoted }

\* C2: the table votes never holds more than one row for a voter key.
C2_AtMostOneVotePerKey ==
    \A ip \in IPs : Cardinality(RowsOf(ip)) <= 1

\* C3: a cast for a voter key that arrives after an accepted cast of that key
\* has completed, with a valid option (the same or a different one), adds no
\* row to votes, so the counts stay as they were, and is answered
\* AlreadyVoted.  Stated for the casts whose inserts met no storage failure.
C3_LaterCastRejected ==
    \A r \in Req :
        (pc[r] # "idle" /\ after[r] /\ party[r] \in PartySet /\ exc[r] # "OperationalError")
        => /\ RowsBy(r) = {}
           /\ pc[r] = "done" => response[r] = AlreadyVoted

\* C4: every voter key in the table voters has exactly one row in votes.
C4_ExactlyOneVotePerVoterRecord ==
    \A ip \in voters : Cardinality(RowsOf(ip)) = 1

\* C5: a cast that is not answered Accepted leaves no Vote row behind: the
\* two inserts of a cast are committed together or not at all.
C5_RejectedCastLeavesNoRow ==
    \A r \in Req :
        (pc[r] = "done" /\ response[r] # Accepted) => RowsBy(r) = {}

\* C6 as claimed: a cast whose (non-empty) option is not a configured party is
\* answered InvalidOption, whether or not its voter key has already voted, and
\* inserts nothing.
C6_UnknownOptionAlwaysInvalidOption ==
    \A r \in Req :
        (pc[r] = "done" /\ party[r] \notin PartySet /\ party[r] # NoParty)
        => response[r] = InvalidOption /\ RowsBy(r) = {}

\* C6 as amended: the step of a cast whose option is not a configured party
\* changes neither votes nor voters and ends the request; its answer is
\* AlreadyVoted when the lookup of has_voted succeeded and found the voter
\* key in voters, else SelectParty for an empty option and InvalidOption for
\* any other one.
C6_InvalidOptionNeverMutates ==
    [][ \A r \in Req :
          (pc[r] = "idle" /\ pc'[r] # "idle" /\ party'[r] \notin PartySet)
          => /\ votes' = votes
             /\ voters' = voters
             /\ pc'[r] = "done"
             /\ response'[r] =
                  IF lookup'[r] # "raised" /\ client_ip'[r] \in voters
                  THEN AlreadyVoted
                  ELSE IF party'[r] = NoParty THEN SelectParty ELSE InvalidOption
      ]_vars

\* C6 witness: a cast with an unknown option for a key that has voted is
\* answered AlreadyVoted.
C6_Witness ==
    \E r \in Req : /\ pc[r] = "done"
                   /\ party[r] = UnknownParty
                   /\ client_ip[r] \in voters
                   /\ response[r] = AlreadyVoted

\* C7: no cast goes on to the inserts of cast_vote after a has_voted lookup
\* that failed, for a voter key that has a row in voters.
C7_FailedLookupNeverProceeds ==
    [][ \A r \in Req :
          (pc[r] = "idle" /\ lookup'[r] = "raised" /\ client_ip'[r] \in voters)
          => pc'[r] # "insert_vote"
      ]_vars

\* Sum of the votes fields of a list of ranking entries.
RECURSIVE SumVotes(_)
SumVotes(entries) ==
    IF entries = << >> THEN 0
    ELSE Head(entries).votes + SumVotes(Tail(entries))

C9_OneEntryPerParty ==
    rpc = "done"
    => /\ Len(rankings) = Len(PARTIES)
       /\ \A i \in 1..Len(PARTIES) :
             Cardinality({ j \in DOMAIN rankings : rankings[j].party = PARTIES[i] }) = 1
       /\ votes = {} =>
             \A j \in DOMAIN rankings :
                 rankings[j].votes = 0 /\ rankings[j].percentage = 0

\* C9 witness: a result computed while the ledger has no votes, after a cast
\* was turned down.
C9_Witness ==
    /\ rpc = "done"
    /\ votes = {}
    /\ \E r \in Req : pc[r] = "done"
    /\ Len(rankings) = Len(PARTIES)

\* C10: the entries of a result are in non-increasing order of votes and the
\* rank of the entry at position i is i, for i = 1..N.
C10_SortedWithRanks ==
    rpc = "done"
    => /\ DOMAIN rankings = 1..Len(PARTIES)
       /\ \A i \in DOMAIN rankings : rankings[i].rank = i
       /\ \A i, j \in DOMAIN rankings :
             i < j => rankings[i].votes >= rankings[j].votes

\* C10 witness: the party declared last leads the result with two votes.
C10_Witness ==
    /\ rpc = "done"
    /\ rankings[1].party = PARTIES[Len(PARTIES)]
    /\ rankings[1].votes = 2
    /\ rankings[2].votes = 0

\* C11: two get_rankings calls, one after the other, with nothing written to
\* votes or voters from the start of the first to the end of the second,
\* return the same rankings and the same total_votes.
C11_RepeatedReadSameResult ==
    (rpc = "done" /\ prev # NoResult)
    => prev = [rankings |-> rankings, total_votes |-> total_votes]

\* Voter keys that identify nobody: the empty string and the absent address.
EmptyKeys == { "", None }

\* C12: no Vote row and no VoterRecord with an empty key is ever inserted,
\* and no cast with an empty key is answered Accepted.
C12_NoEmptyKeyStored ==
    /\ \A v \in votes : v.ip_address \notin EmptyKeys
    /\ voters \cap EmptyKeys = {}
    /\ \A r \in Req :
          (pc[r] # "idle" /\ client_ip[r] \in EmptyKeys) => response[r] # Accepted

\* Every cast answered Accepted has its Vote row in votes and its voter key
\* is found by has_voted.
AcceptedIsRecorded ==
    \A r \in Req :
        response[r] = Accepted
        => /\ [id |-> r, party |-> party[r], ip_address |-> client_ip[r]] \in votes
           /\ client_ip[r] \in voters
           /\ has_voted(SelectVoter(client_ip[r]))

\* C13: after every step, each cast answered Accepted has its Vote row and
\* its VoterRecord, so has_voted of its key is true when the lookup
\* succeeds; and no step removes a VoterRecord or lowers the count of a party.
C13_AcceptedStaysRecorded ==
    [][ /\ AcceptedIsRecorded'
        /\ voters \subseteq voters'
        /\ \A i \in 1..Len(PARTIES) : CountParty(PARTIES[i])' >= CountParty(PARTIES[i])
      ]_vars

\* C13 witness: a key was accepted and a later cast of the same key, for
\* another party, was answered AlreadyVoted.
C13_Witness ==
    \E r, q \in Req :
        /\ response[r] = Accepted
        /\ pc[q] = "done" /\ after[q]
        /\ client_ip[q] = client_ip[r]
        /\ party[q] \in PartySet /\ party[q] # party[r]
        /\ response[q] = AlreadyVoted
        /\ CountParty(party[r]) = 1

\* Position of a party in PARTIES.
PartyIndex(p) == CHOOSE i \in 1..Len(PARTIES) : PARTIES[i] = p

\* C14: of two entries of a result with the same votes, the party declared
\* earlier in PARTIES comes first.
C14_TiesInDeclarationOrder ==
    rpc = "done"
    => \A i, j \in DOMAIN rankings :
          (i < j /\ rankings[i].votes = rankings[j].votes)
          => PartyIndex(rankings[i].party) < PartyIndex(rankings[j].party)

\* C14 witness: two parties with one vote each lead the result, in their
\* order of declaration, ahead of the party declared first.
C14_Witness ==
    /\ rpc = "done"
    /\ rankings[1].party = PARTIES[2] /\ rankings[1].votes = 1
    /\ rankings[2].party = PARTIES[5] /\ rankings[2].votes = 1
    /\ rankings[3].party = PARTIES[1]

\* C15: every row of votes carries a configured party.
C15_VotesCarryConfiguredParty ==
    \A v \in votes : v.party \in PartySet

\* C15 witness: votes has a row, and a cast with an unknown option from a key
\* that had not voted was turned down.
C15_Witness ==
    /\ votes # {}
    /\ \E r \in Req : /\ party[r] = UnknownParty
                   /\ response[r] = InvalidOption
                   /\ RowsBy(r) = {}

=============================================================================
